---- MODULE Spec2Model ----
(***************************************************************************)
(* Model of the job engine of ava (src/src/ava/job/engine.py): JobInfo,    *)
(* JobContext, JobRunner and JobEngine.                                     *)
(*                                                                          *)
(* Greenlets are cooperative: control changes hands only where a greenlet   *)
(* blocks (time.sleep in _run_jobs, ava.sleep inside a job body) or ends.   *)
(* Every action below is the code that runs between two such points.        *)
(* Greenlet.start() and gevent.spawn() only schedule the new greenlet.      *)
(***************************************************************************)
EXTENDS Integers, Sequences, FiniteSets, TLC

\* ------------------------------------------------------------------ bounds
\* number of submit_job calls in a run
MaxSubmits == 1
\* candidates one _gen_job_name call draws at most
MaxTries == 2

\* ------------------------------------------------------------ python values
\* None is the empty tuple, any other value v the tuple <<v>>
None == << >>

Some(v) == <<v>>

\* a dict is a function whose DOMAIN is its key set
EmptyDict == [k \in {} |-> 0]

DictSet(d, k, v) == [x \in (DOMAIN d) \cup {k} |-> IF x = k THEN v ELSE d[x]]

DictDel(d, k) == [x \in (DOMAIN d) \ {k} |-> d[x]]

\* ------------------------------------------------------------------ inputs
\* 'J' + uuid.uuid1().hex[:8], here with one digit: uuid1's first eight
\* digits are the low 32 bits of a 100ns clock, so a value can come back
\* within one run
GenNames == {"J1", "J2"}

\* stems of the files the jobs directory can hold; a file may be named like a
\* generated job
FileStems == {"hello", "J1"}

\* what a job body does when executed: the value it binds to the name
\* "result" (None: it binds nothing), whether it calls ava.sleep() after
\* that, and how it leaves: "return", "Exception" (raises an Exception) or
\* "BaseException" (raises a fault that is no Exception, such as SystemExit)
Bodies ==
    { [bind |-> Some(4), sleeps |-> FALSE, exit |-> "return"],
      [bind |-> None,    sleeps |-> TRUE,  exit |-> "return"],
      [bind |-> Some(4), sleeps |-> FALSE, exit |-> "Exception"],
      [bind |-> Some(4), sleeps |-> FALSE, exit |-> "BaseException"] }

NoBody == [bind |-> None, sleeps |-> FALSE, exit |-> "return"]

\* a source text: the step of read/parse/validate/compile it fails at
\* ("none": it compiles) and the body it compiles to
Scripts ==
    { [fault |-> "none", body |-> b] : b \in Bodies }
    \cup { [fault |-> f, body |-> NoBody] : f \in {"parse", "validate", "compile"} }

\* a file of the jobs directory: its stem, whether open()/read() fails, its text
Files ==
    { [stem |-> s, readable |-> TRUE, script |-> t] : s \in FileStems, t \in Scripts }
    \cup { [stem |-> s, readable |-> FALSE,
            script |-> [fault |-> "parse", body |-> NoBody]] : s \in FileStems }

\* the lists glob.glob can return: no two files of a directory share a name
RECURSIVE SeqsUpTo(_, _)
SeqsUpTo(S, n) ==
    IF n = 0 THEN { << >> }
    ELSE LET shorter == SeqsUpTo(S, n - 1)
         IN  shorter \cup { Append(q, x) : q \in shorter, x \in S }

DirListings ==
    { q \in SeqsUpTo(Files, Cardinality(FileStems)) :
        \A i, j \in 1..Len(q) : i # j => q[i].stem # q[j].stem }

\* the directories whose files all load and are named like generated jobs:
\* the discovered jobs whose names submit_job can meet
GenNamedListings ==
    { q \in DirListings :
        \A i \in 1..Len(q) :
            q[i].readable /\ q[i].script.fault = "none" /\ q[i].stem \in GenNames }

\* the payload of submit_job: a dict with or without the key 'script'
Payloads ==
    { [k \in {} |-> 0] } \cup { [script |-> t] : t \in Scripts }

\* ------------------------------------------------------------------- state
VARIABLES
    jobs,          \* JobEngine.jobs: name -> JobInfo
    contexts,      \* JobEngine.contexts: name -> JobContext (index in ctxObjs)
    runners,       \* JobEngine.runners: name -> JobRunner (index in runnerObjs)
    ctxObjs,       \* the JobContext objects ever constructed
    runnerObjs,    \* the JobRunner objects ever constructed
    core_context,  \* JobEngine._core_context: None until start()
    stopping,      \* JobEngine._stopping
    run_jobs,      \* the greenlet start() spawns for _run_jobs
    events,        \* the signals sent through _core_context.send, in order
    returned,      \* what each submit_job call returned, in order
    loaded,        \* the list _scan_jobs returned to _load_jobs
    job_done_calls \* the calls of job_done, in order: the calling runner

vars == <<jobs, contexts, runners, ctxObjs, runnerObjs, core_context, stopping,
          run_jobs, events, returned, loaded, job_done_calls>>


\* -------------------------------------------------------------- exceptions
\* an exception: its class, its .message (Python 2 sets it from a single
\* constructor argument, else leaves it '') and its str()
KeyErrorScript == [type |-> "KeyError", message |-> "script", str |-> "'script'"]

IOErrorRead == [type |-> "IOError", message |-> "", str |-> "No such file"]

SyntaxErrorParse == [type |-> "SyntaxError", message |-> "", str |-> "invalid syntax"]

ValidationError == [type |-> "ValidationError", message |-> "not allowed", str |-> "not allowed"]

SyntaxErrorCompile == [type |-> "SyntaxError", message |-> "", str |-> "cannot compile"]

\* what a receiver of JOB_ACCEPTED can raise out of _core_context.send
ReceiverErrors ==
    { [type |-> "Exception", message |-> "receiver failed", str |-> "receiver failed"] }

\* ------------------------------------------------------------- constructors
JobInfo(name, script, acode) == [name |-> name, script |-> script, code |-> acode]

\* JobContext.__init__; self is the index the new object gets in ctxObjs
JobContext(job_name, self) ==
    [job_name |-> job_name, scope |-> DictSet(EmptyDict, "ava", self),
     exception |-> None, result |-> None]

JobRunner(job_info, job_context) ==
    [job_info |-> job_info, job_ctx |-> job_context, state |-> "started"]

\* ------------------------------------------------- parse, validate, compile
\* ast.parse; validator.visit; compile: the exception the first failing step
\* raises, or None
ValidatorVisit(script) == IF script.fault = "validate" THEN Some(ValidationError) ELSE None

CompileFault(script) ==
    IF script.fault = "parse" THEN Some(SyntaxErrorParse)
    ELSE IF ValidatorVisit(script) # None THEN ValidatorVisit(script)
    ELSE IF script.fault = "compile" THEN Some(SyntaxErrorCompile)
    ELSE None

\* ------------------------------------------------------------- _load_jobs
\* LoadFile with the two registry writes moved ahead of read, parse, validate
\* and compile
LoadFileRegistersFirst(st, f) ==
    LET name == f.stem
        self == Len(st.ctxObjs) + 1
    IN  IF name = "__init__" THEN st
        ELSE [jobs |-> DictSet(st.jobs, name, JobInfo(name, f.script, f.script.body)),
              contexts |-> DictSet(st.contexts, name, self),
              ctxObjs |-> Append(st.ctxObjs, JobContext(name, self))]

\* one pass of the for loop of _load_jobs over file f; st holds the engine's
\* jobs and contexts and the JobContext objects
LoadFile(st, f) ==
    LET name == f.stem
        fault == IF ~f.readable THEN Some(IOErrorRead) ELSE CompileFault(f.script)
        self == Len(st.ctxObjs) + 1
    IN  IF name = "__init__" THEN st
        ELSE IF fault # None THEN st
        ELSE [jobs |-> DictSet(st.jobs, name, JobInfo(name, f.script, f.script.body)),
              contexts |-> DictSet(st.contexts, name, self),
              ctxObjs |-> Append(st.ctxObjs, JobContext(name, self))]

RECURSIVE LoadJobs(_, _)
LoadJobs(st, job_files) ==
    IF job_files = << >> THEN st
    ELSE LoadJobs(LoadFile(st, Head(job_files)), Tail(job_files))

\* ---------------------------------------------------------- _gen_job_name
\* the while loop over the candidates uuid1 yields: the first one that is not
\* a key of jobs, None when the candidates drawn so far all collide
RECURSIVE GenJobName(_, _)
GenJobName(js, cands) ==
    IF cands = << >> THEN None
    ELSE IF Head(cands) \notin DOMAIN js THEN Some(Head(cands))
    ELSE GenJobName(js, Tail(cands))

\* ---------------------------------------------------------------- signals
Signal(sig, job_name, reason, job_ctx) ==
    [sig |-> sig, job_name |-> job_name, reason |-> reason, job_ctx |-> job_ctx]

\* the reason submit_job reports for exception ex
Reason(ex) == IF Len(ex.message) > 0 THEN ex.message ELSE ex.str

\* ---------------------------------------------------------------- job_done
\* JobDone with 'self.runners = {}' in place of the deletion of one key
JobDoneClearsRunners(js, cs, rs, ctx, c) ==
    LET name == ctx.job_name
    IN  [jobs |-> IF name \in DOMAIN js THEN DictDel(js, name) ELSE js,
         contexts |-> cs,
         runners |-> EmptyDict,
         signal |-> IF ctx.exception # None
                    THEN Signal("JOB_FAILED", "", "", c)
                    ELSE Signal("JOB_FINISHED", "", "", c)]

\* JobDone without the deletion from self.runners
JobDoneKeepsRunner(js, cs, rs, ctx, c) ==
    LET name == ctx.job_name
    IN  [jobs |-> IF name \in DOMAIN js THEN DictDel(js, name) ELSE js,
         contexts |-> cs,
         runners |-> rs,
         signal |-> IF ctx.exception # None
                    THEN Signal("JOB_FAILED", "", "", c)
                    ELSE Signal("JOB_FINISHED", "", "", c)]

\* the registries after job_done(job_context) and the signal it sends; c is
\* the index of job_context in ctxObjs
JobDone(js, cs, rs, ctx, c) ==
    LET name == ctx.job_name
    IN  [jobs |-> IF name \in DOMAIN js THEN DictDel(js, name) ELSE js,
         contexts |-> cs,
         runners |-> IF name \in DOMAIN rs THEN DictDel(rs, name) ELSE rs,
         signal |-> IF ctx.exception # None
                    THEN Signal("JOB_FAILED", "", "", c)
                    ELSE Signal("JOB_FINISHED", "", "", c)]

\* -------------------------------------------------------- JobRunner._run
\* exec of the job's code up to the point where the body sleeps or leaves:
\* the binding of "result" in the scope
ExecBind(ctx, body) ==
    IF body.bind # None
    THEN [ctx EXCEPT !.scope = DictSet(@, "result", body.bind[1])]
    ELSE ctx

\* AfterExec with the copy of "result" moved into the finally clause
AfterExecCopiesAlways(ctx, exit) ==
    LET caught == IF exit = "Exception" THEN [ctx EXCEPT !.exception = Some("ex")] ELSE ctx
    IN  IF "result" \in DOMAIN caught.scope
        THEN [caught EXCEPT !.result = Some(caught.scope["result"])]
        ELSE caught

\* the rest of the try statement once the body leaves by exit
AfterExec(ctx, exit) ==
    CASE exit = "return" ->
            IF "result" \in DOMAIN ctx.scope
            THEN [ctx EXCEPT !.result = Some(ctx.scope["result"])]
            ELSE ctx
      [] exit = "Exception" -> [ctx EXCEPT !.exception = Some("ex")]
      [] OTHER -> ctx

\* RunsFinally with job_done called at the end of the try and except blocks
\* instead of in a finally clause
RunsFinallyOnCaughtExits(exit) == exit \in {"return", "Exception"}

\* the finally clause runs on every way out of the try statement
RunsFinally(exit) == exit \in {"return", "Exception", "BaseException"}


\* ------------------------------------------------------------- submit_job
\* SubmitRegister with the runner constructed but not entered in runners
SubmitRegisterWithoutRunner(st, job_name, script) ==
    LET job_info == JobInfo(job_name, script, script.body)
        ctx == Len(st.ctxObjs) + 1
    IN  [jobs |-> DictSet(st.jobs, job_name, job_info),
         contexts |-> DictSet(st.contexts, job_name, ctx),
         runners |-> st.runners,
         ctxObjs |-> Append(st.ctxObjs, JobContext(job_name, ctx)),
         runnerObjs |-> Append(st.runnerObjs, JobRunner(job_info, ctx))]

\* lines 181-187: the three registry writes and the two constructions of an
\* accepted submission; st holds the registries and the two object heaps
SubmitRegister(st, job_name, script) ==
    LET job_info == JobInfo(job_name, script, script.body)
        ctx == Len(st.ctxObjs) + 1
        runner == Len(st.runnerObjs) + 1
    IN  [jobs |-> DictSet(st.jobs, job_name, job_info),
         contexts |-> DictSet(st.contexts, job_name, ctx),
         runners |-> DictSet(st.runners, job_name, runner),
         ctxObjs |-> Append(st.ctxObjs, JobContext(job_name, ctx)),
         runnerObjs |-> Append(st.runnerObjs, JobRunner(job_info, ctx))]

\* runner.start() as if it were runner.run(): the body of runner r runs to
\* its end, job_done included, before start() returns
RunnerStartRunsBody(st, r) ==
    LET c == st.runnerObjs[r].job_ctx
        body == st.runnerObjs[r].job_info.code
        after == AfterExec(ExecBind(st.ctxObjs[c], body), body.exit)
        done == JobDone(st.jobs, st.contexts, st.runners, after, c)
    IN  [st EXCEPT !.ctxObjs[c] = after,
                   !.runnerObjs[r].state = "dead",
                   !.jobs = done.jobs,
                   !.contexts = done.contexts,
                   !.runners = done.runners,
                   !.events = Append(@, done.signal),
                   !.job_done_calls = Append(@, r)]

\* line 187, runner.start(): Greenlet.start() schedules runner r and returns;
\* nothing of _run has run when it does
RunnerStart(st, r) == [st EXCEPT !.runnerObjs[r].state = "started"]

\* the exception the try block raises before its first registry write
SubmitFault(job) ==
    IF "script" \notin DOMAIN job THEN Some(KeyErrorScript) ELSE CompileFault(job.script)

\* ---------------------------------------------------------------- _run_jobs
\* StartJob with one JobContext, the first registered, handed to every runner
StartJobSharedContext(st, js, cs, task_name) ==
    LET runner == Len(st.runnerObjs) + 1
        shared == cs[CHOOSE n \in DOMAIN cs : \A m \in DOMAIN cs : cs[n] <= cs[m]]
    IN  [runners |-> DictSet(st.runners, task_name, runner),
         runnerObjs |-> Append(st.runnerObjs, JobRunner(js[task_name], shared))]

\* one pass of the for loop of _run_jobs
StartJob(st, js, cs, task_name) ==
    LET runner == Len(st.runnerObjs) + 1
    IN  [runners |-> DictSet(st.runners, task_name, runner),
         runnerObjs |-> Append(st.runnerObjs, JobRunner(js[task_name], cs[task_name]))]

RECURSIVE StartJobs(_, _, _, _)
StartJobs(st, js, cs, names) ==
    IF names = {} THEN st
    ELSE LET task_name == CHOOSE n \in names : TRUE
         IN  StartJobs(StartJob(st, js, cs, task_name), js, cs, names \ {task_name})

\* ------------------------------------------------------------------ actions
Init ==
    /\ jobs = EmptyDict
    /\ contexts = EmptyDict
    /\ runners = EmptyDict
    /\ ctxObjs = << >>
    /\ runnerObjs = << >>
    /\ core_context = None
    /\ stopping = FALSE
    /\ run_jobs = "none"
    /\ events = << >>
    /\ returned = << >>
    /\ loaded = << >>
    /\ job_done_calls = << >>

\* JobEngine.start(ctx) over a jobs directory that lists job_files
Start(job_files) ==
    /\ core_context = None
    /\ core_context' = Some("ctx")
    /\ loaded' = job_files
    /\ LET st == LoadJobs([jobs |-> jobs, contexts |-> contexts, ctxObjs |-> ctxObjs],
                          job_files)
       IN  /\ jobs' = st.jobs
           /\ contexts' = st.contexts
           /\ ctxObjs' = st.ctxObjs
    /\ run_jobs' = "spawned"
    /\ UNCHANGED <<runners, runnerObjs, stopping, events, returned, job_done_calls>>

\* the greenlet of _run_jobs from its first line to its first time.sleep(1),
\* or to its end when _stopping is already set
RunJobs ==
    /\ run_jobs = "spawned"
    /\ LET st == StartJobs([runners |-> runners, runnerObjs |-> runnerObjs],
                           jobs, contexts, DOMAIN jobs)
       IN  /\ runners' = st.runners
           /\ runnerObjs' = st.runnerObjs
    /\ run_jobs' = IF stopping THEN "done" ELSE "sleeping"
    /\ UNCHANGED <<jobs, contexts, ctxObjs, core_context, stopping, events, returned,
                   loaded, job_done_calls>>

\* _run_jobs wakes from time.sleep(1) and finds _stopping set
RunJobsExit ==
    /\ run_jobs = "sleeping"
    /\ stopping
    /\ run_jobs' = "done"
    /\ UNCHANGED <<jobs, contexts, runners, ctxObjs, runnerObjs, core_context, stopping,
                   events, returned, loaded, job_done_calls>>

\* Stop that also kills the runners, as gevent.killall(block=False) leaves
\* them: ended, their finally clause not run yet
StopKillsRunners ==
    /\ core_context # None
    /\ ~stopping
    /\ stopping' = TRUE
    /\ runnerObjs' = [r \in 1..Len(runnerObjs) |-> [runnerObjs[r] EXCEPT !.state = "dead"]]
    /\ UNCHANGED <<jobs, contexts, runners, ctxObjs, core_context, run_jobs,
                   events, returned, loaded, job_done_calls>>

\* JobEngine.stop(ctx)
Stop ==
    /\ core_context # None
    /\ ~stopping
    /\ stopping' = TRUE
    /\ UNCHANGED <<jobs, contexts, runners, ctxObjs, runnerObjs, core_context, run_jobs,
                   events, returned, loaded, job_done_calls>>

\* JobEngine.submit_job(job): cands are the names uuid1 yields to
\* _gen_job_name until its loop returns, recv the exception a receiver of
\* JOB_ACCEPTED raises (None: the send returns, or is not reached)
SubmitJob(job, cands, recv) ==
    /\ core_context # None
    /\ Len(returned) < MaxSubmits
    /\ GenJobName(jobs, cands) # None
    /\ \A i \in 1..(Len(cands) - 1) : cands[i] \in DOMAIN jobs
    /\ SubmitFault(job) # None => recv = None
    /\ LET job_name == GenJobName(jobs, cands)[1]
           fault == SubmitFault(job)
           reg == SubmitRegister([jobs |-> jobs, contexts |-> contexts,
                                  runners |-> runners, ctxObjs |-> ctxObjs,
                                  runnerObjs |-> runnerObjs], job_name, job.script)
           st == RunnerStart([jobs |-> reg.jobs, contexts |-> reg.contexts,
                              runners |-> reg.runners, ctxObjs |-> reg.ctxObjs,
                              runnerObjs |-> reg.runnerObjs, events |-> events,
                              job_done_calls |-> job_done_calls],
                             Len(reg.runnerObjs))
       IN  IF fault # None
           THEN /\ events' = Append(events, Signal("JOB_REJECTED", "", Reason(fault[1]), 0))
                /\ returned' = Append(returned, None)
                /\ UNCHANGED <<jobs, contexts, runners, ctxObjs, runnerObjs, job_done_calls>>
           ELSE /\ jobs' = st.jobs
                /\ contexts' = st.contexts
                /\ runners' = st.runners
                /\ ctxObjs' = st.ctxObjs
                /\ runnerObjs' = st.runnerObjs
                /\ job_done_calls' = st.job_done_calls
                /\ IF recv = None
                   THEN /\ events' = Append(st.events, Signal("JOB_ACCEPTED", job_name, "", 0))
                        /\ returned' = Append(returned, Some(job_name))
                   ELSE /\ events' = st.events \o
                                <<Signal("JOB_ACCEPTED", job_name, "", 0),
                                  Signal("JOB_REJECTED", "", Reason(recv[1]), 0)>>
                        /\ returned' = Append(returned, None)
    /\ UNCHANGED <<core_context, stopping, run_jobs, loaded>>

\* the end of JobRunner._run of runner r, from the point where the body
\* leaves; ctx is the runner's JobContext as the body left it
Finish(r, ctx) ==
    LET c == runnerObjs[r].job_ctx
        exit == runnerObjs[r].job_info.code.exit
        after == AfterExec(ctx, exit)
        done == JobDone(jobs, contexts, runners, after, c)
    IN  /\ ctxObjs' = [ctxObjs EXCEPT ![c] = after]
        /\ runnerObjs' = [runnerObjs EXCEPT ![r].state = "dead"]
        /\ IF RunsFinally(exit)
           THEN /\ jobs' = done.jobs
                /\ contexts' = done.contexts
                /\ runners' = done.runners
                /\ events' = Append(events, done.signal)
                /\ job_done_calls' = Append(job_done_calls, r)
           ELSE UNCHANGED <<jobs, contexts, runners, events, job_done_calls>>
        /\ UNCHANGED <<core_context, stopping, run_jobs, returned, loaded>>

\* the greenlet of runner r from the first line of _run to the body's
\* ava.sleep(), or to the end of _run when the body does not sleep
RunnerRun(r) ==
    /\ runnerObjs[r].state = "started"
    /\ LET c == runnerObjs[r].job_ctx
           body == runnerObjs[r].job_info.code
           bound == ExecBind(ctxObjs[c], body)
       IN  IF body.sleeps
           THEN /\ ctxObjs' = [ctxObjs EXCEPT ![c] = bound]
                /\ runnerObjs' = [runnerObjs EXCEPT ![r].state = "sleeping"]
                /\ UNCHANGED <<jobs, contexts, runners, core_context, stopping, run_jobs,
                               events, returned, loaded, job_done_calls>>
           ELSE Finish(r, bound)

\* runner r wakes from ava.sleep() and runs to the end of _run
RunnerWake(r) ==
    /\ runnerObjs[r].state = "sleeping"
    /\ Finish(r, ctxObjs[runnerObjs[r].job_ctx])

Next ==
    \/ \E job_files \in GenNamedListings : Start(job_files)
    \/ RunJobs
    \/ RunJobsExit
    \/ Stop
    \/ \E job \in Payloads, cands \in SeqsUpTo(GenNames, MaxTries) \ {<< >>},
          recv \in {None} \cup {Some(e) : e \in ReceiverErrors} :
            SubmitJob(job, cands, recv)
    \/ \E r \in 1..Len(runnerObjs) : RunnerRun(r)
    \/ \E r \in 1..Len(runnerObjs) : RunnerWake(r)

Spec == Init /\ [][Next]_vars

\* discovery over every directory, without submissions
NextLoad ==
    \/ \E job_files \in DirListings : Start(job_files)
    \/ RunJobs
    \/ RunJobsExit
    \/ Stop
    \/ \E r \in 1..Len(runnerObjs) : RunnerRun(r)
    \/ \E r \in 1..Len(runnerObjs) : RunnerWake(r)

SpecLoad == Init /\ [][NextLoad]_vars


\* ------------------------------------------------------------------ claims
Registries == <<jobs, contexts, runners>>

InAll(name) == name \in DOMAIN jobs /\ name \in DOMAIN contexts /\ name \in DOMAIN runners

InNone(name) == name \notin DOMAIN jobs /\ name \notin DOMAIN contexts /\ name \notin DOMAIN runners

AllNames == GenNames \cup FileStems

Terminal(e) == e.sig \in {"JOB_FINISHED", "JOB_FAILED"}

\* the JobContext, body and way out of runner r
CtxOf(r) == ctxObjs[runnerObjs[r].job_ctx]

BodyOf(r) == runnerObjs[r].job_info.code

Dead(r) == runnerObjs[r].state = "dead"

DoneCallsBy(r) == Cardinality({i \in 1..Len(job_done_calls) : job_done_calls[i] = r})

TerminalSignalsOf(c) ==
    Cardinality({i \in 1..Len(events) : Terminal(events[i]) /\ events[i].job_ctx = c})

\* a step in which job_done is called
JobDoneStep == Len(job_done_calls') = Len(job_done_calls) + 1

\* a step of submit_job
SubmitStep == Len(returned') = Len(returned) + 1

\* the signals a step sends
Sent == {i \in (Len(events) + 1)..Len(events') : TRUE}

\* C1: after job_done(scope) has run for a job, the job's name is in none of
\* jobs, contexts and runners.
C1_JobDoneRemovesFromAllThree ==
    [][JobDoneStep =>
         LET r == job_done_calls'[Len(job_done_calls')]
             name == CtxOf(r).job_name
         IN  /\ name \notin DOMAIN jobs'
             /\ name \notin DOMAIN contexts'
             /\ name \notin DOMAIN runners']_vars

\* C2: every runner calls job_done at most once, and a runner that has ended
\* has called it exactly once, whichever way the job body left.
C2_JobDoneOncePerRunner ==
    \A r \in 1..Len(runnerObjs) :
        /\ DoneCallsBy(r) <= 1
        /\ Dead(r) => DoneCallsBy(r) = 1

C2_Witness ==
    \E r \in 1..Len(runnerObjs) :
        Dead(r) /\ BodyOf(r).exit = "BaseException" /\ DoneCallsBy(r) = 1

\* C3: no job (a JobContext registered with its JobInfo) is ever given a
\* second JobRunner.
C3_OneRunnerPerJob ==
    \A c \in 1..Len(ctxObjs) :
        Cardinality({r \in 1..Len(runnerObjs) : runnerObjs[r].job_ctx = c}) <= 1

\* C4: wherever control can switch, every job name is in all three registries
\* or in none of them.
C4_AllOrNone == \A name \in AllNames : InAll(name) \/ InNone(name)

\* C5: the name an accepted submission registers is in none of the three
\* registries immediately before submit_job registers it.
C5_GeneratedNameIsFresh ==
    [][(SubmitStep /\ returned'[Len(returned')] # None) =>
         InNone(returned'[Len(returned')][1])]_vars

\* C6: a submission that sends JOB_REJECTED leaves the three registries as they
\* were, starts no runner, sends exactly one signal, a JOB_REJECTED with a
\* non-empty reason, and returns no name.
C6_RejectionLeavesNoTrace ==
    [][(SubmitStep /\ \E i \in Sent : events'[i].sig = "JOB_REJECTED") =>
         /\ Registries' = Registries
         /\ runnerObjs' = runnerObjs
         /\ Len(events') = Len(events) + 1
         /\ events'[Len(events')].reason # ""
         /\ returned'[Len(returned')] = None]_vars

\* C7: when submit_job sends JOB_ACCEPTED{job_name}, job_name is in all three
\* registries.
C7_RegisteredWhenAccepted ==
    [][\A i \in Sent :
         events'[i].sig = "JOB_ACCEPTED" =>
            /\ events'[i].job_name \in DOMAIN jobs'
            /\ events'[i].job_name \in DOMAIN contexts'
            /\ events'[i].job_name \in DOMAIN runners']_vars

\* an accepted job is registered while the runner of an earlier job has ended
C7_Witness ==
    /\ \E i \in 1..Len(events) :
          /\ events[i].sig = "JOB_ACCEPTED"
          /\ InAll(events[i].job_name)
    /\ \E r \in 1..Len(runnerObjs) : Dead(r)

\* C8: a started job sends at most one terminal signal, and once a runner of
\* it has ended exactly one: JOB_FAILED if its exception is set, JOB_FINISHED
\* otherwise.
C8_OneTerminalSignal ==
    \A c \in 1..Len(ctxObjs) :
        /\ TerminalSignalsOf(c) <= 1
        /\ (\E r \in 1..Len(runnerObjs) : runnerObjs[r].job_ctx = c /\ Dead(r)) =>
              /\ TerminalSignalsOf(c) = 1
              /\ \A i \in 1..Len(events) :
                    (Terminal(events[i]) /\ events[i].job_ctx = c) =>
                        (events[i].sig = "JOB_FAILED" <=> ctxObjs[c].exception # None)

\* C9 as stated: after any completion, result is the value the scope binds to
\* "result", and None when the scope binds none.
C9_ResultAfterAnyCompletion ==
    \A r \in 1..Len(runnerObjs) :
        Dead(r) =>
            IF "result" \in DOMAIN CtxOf(r).scope
            THEN CtxOf(r).result = Some(CtxOf(r).scope["result"])
            ELSE CtxOf(r).result = None

\* C9 as amended: after a normal completion, result is the value the scope
\* binds to "result", and None when the scope binds none; after a completion by
\* an uncaught fault, result is None whether or not the scope binds "result".
C9_ResultAfterNormalCompletion ==
    \A r \in 1..Len(runnerObjs) :
        Dead(r) =>
            IF BodyOf(r).exit = "return" /\ "result" \in DOMAIN CtxOf(r).scope
            THEN CtxOf(r).result = Some(CtxOf(r).scope["result"])
            ELSE CtxOf(r).result = None

C9_Witness ==
    /\ \E r \in 1..Len(runnerObjs) :
          /\ Dead(r) /\ BodyOf(r).exit = "Exception"
          /\ "result" \in DOMAIN CtxOf(r).scope
          /\ CtxOf(r).result = None
    /\ \E r \in 1..Len(runnerObjs) :
          /\ Dead(r) /\ BodyOf(r).exit = "return"
          /\ CtxOf(r).result = Some(4)

\* file f of the directory reads, parses, validates and compiles
Loads(f) == f.readable /\ f.script.fault = "none"

\* C10: a file that fails to read, parse, validate or compile is in no
\* registry, has no JobContext and no signal; every file that loads has its
\* JobContext, registered in jobs and contexts when start() returns; discovery
\* sends no signal of its own.
C10_FailedFilesSkipped ==
    /\ \A i \in 1..Len(loaded) :
          LET f == loaded[i]
          IN  IF Loads(f)
              THEN \E c \in 1..Len(ctxObjs) :
                      /\ ctxObjs[c].job_name = f.stem
                      /\ run_jobs = "spawned" =>
                            /\ f.stem \in DOMAIN jobs
                            /\ jobs[f.stem].code = f.script.body
                            /\ f.stem \in DOMAIN contexts
                            /\ contexts[f.stem] = c
              ELSE /\ InNone(f.stem)
                   /\ \A c \in 1..Len(ctxObjs) : ctxObjs[c].job_name # f.stem
    /\ \A i \in 1..Len(events) : Terminal(events[i])
    /\ run_jobs = "spawned" => events = << >>

C10_Witness ==
    /\ run_jobs = "spawned"
    /\ Len(loaded) = 2
    /\ ~Loads(loaded[1])
    /\ Loads(loaded[2])
    /\ loaded[2].stem \in DOMAIN jobs


\* a step in which runner r leaves its body by a fault and ends
FaultStep(r) ==
    /\ ~Dead(r)
    /\ runnerObjs'[r].state = "dead"
    /\ BodyOf(r).exit # "return"

\* runner r is not ended and its greenlet can run
CanRun(r) == ~Dead(r) /\ ENABLED (RunnerRun(r) \/ RunnerWake(r))

\* C11: an uncaught fault of a job is stored in its scope.exception; the step
\* in which it ends leaves every other runner, every other JobContext and the
\* dispatch loop as they were, and every other runner that has not ended can
\* still run.
C11_FaultStoredAndContained ==
    [][/\ \A r \in 1..Len(runnerObjs') :
             (runnerObjs'[r].state = "dead" /\ runnerObjs'[r].job_info.code.exit # "return")
                => ctxObjs'[runnerObjs'[r].job_ctx].exception # None
       /\ \A r \in 1..Len(runnerObjs) :
             FaultStep(r) =>
                /\ run_jobs' = run_jobs
                /\ \A q \in 1..Len(runnerObjs) : q # r => runnerObjs'[q] = runnerObjs[q]
                /\ \A c \in 1..Len(ctxObjs) :
                      c # runnerObjs[r].job_ctx => ctxObjs'[c] = ctxObjs[c]]_vars

\* C12: a runner works on the JobContext constructed for its own job; runners
\* that share a JobContext are runners of the same job; and a JobContext
\* changes only in a step of a runner of its job.
C12_ScopesAreIsolated ==
    [][/\ \A r \in 1..Len(runnerObjs') :
             ctxObjs'[runnerObjs'[r].job_ctx].job_name = runnerObjs'[r].job_info.name
       /\ \A r, q \in 1..Len(runnerObjs') :
             runnerObjs'[r].job_ctx = runnerObjs'[q].job_ctx
                => runnerObjs'[r].job_info = runnerObjs'[q].job_info
       /\ \A c \in 1..Len(ctxObjs) :
             ctxObjs'[c] # ctxObjs[c] =>
                \E r \in 1..Len(runnerObjs) :
                    /\ runnerObjs[r].job_ctx = c
                    /\ runnerObjs'[r].state # runnerObjs[r].state]_vars

\* two jobs run side by side: one has bound "result" and ended, the other is
\* inside ava.sleep() and its scope binds no "result"
C12_Witness ==
    \E r, q \in 1..Len(runnerObjs) :
        /\ runnerObjs[r].job_ctx # runnerObjs[q].job_ctx
        /\ Dead(r) /\ "result" \in DOMAIN CtxOf(r).scope
        /\ runnerObjs[q].state = "sleeping"
        /\ "result" \notin DOMAIN CtxOf(q).scope

\* C13: the step in which stop() sets the flag changes no runner; and while
\* the flag is set every runner that has not ended can still run, and the step
\* in which it ends is a call of job_done by it that sends a terminal signal.
C13_StopLeavesRunnersRunning ==
    [][/\ (~stopping /\ stopping') => runnerObjs' = runnerObjs
       /\ stopping =>
             \A r \in 1..Len(runnerObjs) :
                ~Dead(r) =>
                    /\ CanRun(r)
                    /\ runnerObjs'[r].state = "dead" =>
                          /\ job_done_calls' = Append(job_done_calls, r)
                          /\ Len(events') = Len(events) + 1
                          /\ Terminal(events'[Len(events')])
                          /\ events'[Len(events')].job_ctx = runnerObjs[r].job_ctx]_vars

\* stop() has set the flag and the dispatch loop has left, while one runner is
\* inside ava.sleep() and another has ended through job_done
C13_Witness ==
    /\ stopping
    /\ run_jobs = "done"
    /\ \E r \in 1..Len(runnerObjs) : runnerObjs[r].state = "sleeping"
    /\ \E r \in 1..Len(runnerObjs) : Dead(r) /\ DoneCallsBy(r) = 1

\* C14, for the dispatch loop: when _stopping is set before the greenlet of
\* _run_jobs runs, _run_jobs starts no runner.
C14_NoDispatchAfterStop ==
    [][(stopping /\ run_jobs = "spawned" /\ run_jobs' # "spawned")
          => Len(runnerObjs') = Len(runnerObjs)]_vars

\* C15: after a job's run, scope.exception is set if and only if the body
\* left by a fault, whether or not the fault is an Exception.
C15_ExceptionSetIffFault ==
    \A r \in 1..Len(runnerObjs) :
        Dead(r) => (CtxOf(r).exception # None <=> BodyOf(r).exit # "return")

\* C16: job_done for a name that is in neither jobs nor runners any more
\* leaves the registries as they are and sends no signal.
C16_JobDoneOfRemovedNameIsNoOp ==
    [][(/\ JobDoneStep
        /\ CtxOf(job_done_calls'[Len(job_done_calls')]).job_name \notin DOMAIN jobs
        /\ CtxOf(job_done_calls'[Len(job_done_calls')]).job_name \notin DOMAIN runners)
          => (Registries' = Registries /\ events' = events)]_vars

\* C17: when submit_job sends JOB_ACCEPTED{job_name}, no terminal signal of the
\* job it has just registered has been sent; signals are only ever appended,
\* so the job's terminal signal follows its JOB_ACCEPTED.
C17_AcceptedBeforeTerminal ==
    [][/\ \A i \in Sent :
             events'[i].sig = "JOB_ACCEPTED" =>
                \A k \in 1..Len(events') :
                    ~(Terminal(events'[k]) /\ events'[k].job_ctx = Len(ctxObjs'))
       /\ \A k \in 1..Len(events) : events'[k] = events[k]]_vars

\* a submitted job's terminal signal has followed its JOB_ACCEPTED
C17_Witness ==
    \E i, k \in 1..Len(events) :
        /\ i < k
        /\ events[i].sig = "JOB_ACCEPTED"
        /\ Terminal(events[k])
        /\ ctxObjs[events[k].job_ctx].job_name = events[i].job_name
        /\ contexts[events[i].job_name] = events[k].job_ctx

\* C18: a call of job_done for a job leaves the entries of every other job
\* name in jobs, contexts and runners as they were.
C18_JobDoneTouchesOneName ==
    [][JobDoneStep =>
         LET name == CtxOf(job_done_calls'[Len(job_done_calls')]).job_name
         IN  \A other \in AllNames \ {name} :
                /\ (other \in DOMAIN jobs <=> other \in DOMAIN jobs')
                /\ (other \in DOMAIN contexts <=> other \in DOMAIN contexts')
                /\ (other \in DOMAIN runners <=> other \in DOMAIN runners')
                /\ other \in DOMAIN jobs => jobs'[other] = jobs[other]
                /\ other \in DOMAIN contexts => contexts'[other] = contexts[other]
                /\ other \in DOMAIN runners => runners'[other] = runners[other]]_vars

\* job_done has run for one job while another job is in all three registries
C18_Witness ==
    \E i \in 1..Len(job_done_calls) :
        \E other \in AllNames \ {CtxOf(job_done_calls[i]).job_name} : InAll(other)

\* C19: wherever control can switch, every name in runners is in jobs and
\* every name in jobs is in contexts.
C19_RegistriesNested ==
    /\ DOMAIN runners \subseteq DOMAIN jobs
    /\ DOMAIN jobs \subseteq DOMAIN contexts

\* one job has ended and left the registries unequal while another is in all
\* three
C19_Witness ==
    /\ \E name \in DOMAIN contexts : name \notin DOMAIN jobs
    /\ \E name \in DOMAIN runners : InAll(name)
    /\ job_done_calls # << >>

====
